---------------------------- MODULE Spec2Model ----------------------------
(***************************************************************************)
(* A model of the browser-side CD player core, src/frontend/cdfunctions.js *)
(*                                                                         *)
(* The script runs on one JavaScript event loop.  Every action below is    *)
(* one run-to-completion step of it: a handler from its entry up to its    *)
(* first await, or the continuation of an async function from the await    *)
(* that has just been answered up to the next one.  Async functions that   *)
(* are suspended at an await are the records of the bag inv.               *)
(*                                                                         *)
(* An AudioBufferSourceNode is a record [st, track, lis]: track is the     *)
(* track whose decoded audio it plays, lis says whether playTrack's        *)
(* 'ended' listener is attached.  A started node is "live" until it has    *)
(* played its buffer to the end or stop() is called on it.  The Web Audio  *)
(* 'ended' event is delivered to the listener in both cases, in a later    *)
(* task of the event loop, whatever the state of the context then is: a    *)
(* node that played to its end is "finished", one on which stop() was      *)
(* called is "stopped", until its event is delivered; a node whose event   *)
(* was delivered while it is referenced is "ended"; a node created by a    *)
(* seek whose start() threw is "unstarted": it makes no sound, has no      *)
(* event, and stop() on it throws.  The variable                           *)
(* audioSource holds the node the script references; detached holds the    *)
(* nodes it no longer references that are still live or still have an      *)
(* event to deliver to a listener.                                         *)
(*                                                                         *)
(* Encodings: cdInfo = 0 is null, cdInfo = n > 0 is a disc info whose      *)
(* tracks are numbered 1..n; currentTrack = 0 is null; currentBuffer = 0   *)
(* is null/undefined, currentBuffer = n is the decoded audio of track n;   *)
(* playlist = 0 is a page without track list, playlist = n lists 1..n.     *)
(***************************************************************************)
EXTENDS Naturals, FiniteSets, Bags

(* ------------------------------ bounds -------------------------------- *)

\* Largest number of tracks a disc info reports.
MaxTracks == 2

\* Async invocations (playTrack, stopTrack, loadCDInfo) suspended at once.
MaxInv == 2

\* Audio source nodes that exist at once (referenced or detached).
MaxSrc == 2

\* setTimeout(startPolling, 1000) timers pending at once.
MaxTimers == 1

(* ----------------------------- constants ------------------------------ *)

CHECK_INTERVAL == 5000

\* Arguments playTrack is called with: every track and one past the last.
TrackArgs == 1..(MaxTracks + 1)

VARIABLES
    cdInfo,           \* let cdInfo
    currentTrack,     \* let currentTrack
    isPlaying,        \* let isPlaying
    audioContext,     \* "none" (undefined) | "running" | "suspended"
    audioSource,      \* let audioSource: the node referenced, or NoSrc
    currentBuffer,    \* let currentBuffer
    detached,         \* bag of nodes no longer referenced by audioSource
    inv,              \* bag of async invocations suspended at an await
    pollingInterval,  \* let pollingInterval: TRUE iff an interval is set
    timers,           \* pending setTimeout(startPolling, 1000) timers
    sinceCheck,       \* Date.now() - lastCheckTime: 0 while it is less than
                      \* CHECK_INTERVAL, CHECK_INTERVAL once it is that or more
    playlist,         \* the #playlist element: 0 shows no track list (the
                      \* 'No CD detected' message), n lists tracks 1..n
    last              \* history: the latest session command of the
                      \* client or natural end of a source, see Event

sessVars == <<currentTrack, isPlaying, audioContext, audioSource,
              currentBuffer, detached>>
pollVars == <<pollingInterval, timers, sinceCheck>>
vars == <<cdInfo, sessVars, inv, pollVars, playlist, last>>

(* --------------------------- source nodes ----------------------------- *)

Add(B, r) == B (+) SetToBag({r})
Del(B, r) == B (-) SetToBag({r})

\* audioSource is null or undefined.
NoSrc == [st |-> "none", track |-> 0, lis |-> FALSE]

\* createBufferSource(); buffer = the audio of track; start().
StartedSrc(track, lis) == [st |-> "live", track |-> track, lis |-> lis]

\* createBufferSource(); buffer = the audio of track; start(0, newTime)
\* threw a RangeError (newTime < 0): the node exists and was not started.
UnstartedSrc(track) == [st |-> "unstarted", track |-> track, lis |-> FALSE]

\* audioSource.stop() throws an InvalidStateError: start() was not called.
StopThrows(a) == a.st = "unstarted"

\* audioSource.stop() on node a, after which the script drops its
\* reference to a: a live node with a listener has its 'ended' event
\* pending; stop() on a node that has played to its end changes nothing,
\* and the event of a finished node is still to be delivered.
Detach(D, a) ==
    IF a.st = "live" /\ a.lis
    THEN Add(D, [a EXCEPT !.st = "stopped"])
    ELSE IF a.st = "finished" /\ a.lis
    THEN Add(D, a)
    ELSE D

\* audioSource is overwritten while it references node a, without stop().
Overwrite(D, a) ==
    IF a.st = "live" \/ (a.st = "finished" /\ a.lis) THEN Add(D, a) ELSE D

\* The number of nodes that are started and not stopped.
LiveCount(a, D) ==
    (IF a.st = "live" THEN 1 ELSE 0)
    + BagCardinality([d \in {x \in BagToSet(D) : x.st = "live"} |-> D[d]])

\* The number of nodes that exist.
SrcCount(a, D) == (IF a.st = "none" THEN 0 ELSE 1) + BagCardinality(D)

(* ---------------------------- invocations ----------------------------- *)

\* op: the async function; n: playTrack's trackNumber (0 for the others);
\* pc: the await it is suspended at; stopOk: history, set when playTrack
\* issues its play request: whether the /api/cd/stop request of the
\* stopTrack() it awaited was answered ok.
Frame(op, n, pc) == [op |-> op, n |-> n, pc |-> pc, stopOk |-> FALSE]

\* playTrack(n) awaiting the answer to GET /api/cd/play/n.
PlayFrame(n, ok) == [op |-> "play", n |-> n, pc |-> "play_wait", stopOk |-> ok]

Frames == BagToSet(inv)

CanCall == BagCardinality(inv) < MaxInv

(* ------------------------------ helpers ------------------------------- *)

\* A lookup that accepts every positive track number.
TrackFoundUnchecked(trackNumber, info) == trackNumber >= 1

\* cdInfo.tracks.find(t => t.number === trackNumber)
TrackFound(trackNumber, info) == trackNumber \in 1..info

\* if (currentTrack < cdInfo.tracks.length)
ShouldAdvance(track, info) == track < info

\* A rate guard that lets every call through.
TooSoonNever(elapsed) == elapsed < 0

\* now - lastCheckTime < CHECK_INTERVAL
TooSoon(elapsed) == elapsed < CHECK_INTERVAL

(* ------------------------ stopTrack and playTrack --------------------- *)

\* stopTrack() when audioSource.stop() throws (l.191): the catch block
\* logs, the finally block sets the timer, and nothing else has happened
\* but stopPolling(); no request is issued.
stopTrackThrows(a, D) ==
    /\ timers < MaxTimers
    /\ pollingInterval' = FALSE
    /\ timers' = timers + 1
    /\ audioSource' = a
    /\ detached' = D
    /\ UNCHANGED <<cdInfo, playlist, currentTrack, isPlaying, audioContext,
                   currentBuffer, inv, sinceCheck>>

\* A stopTrack that also forgets the current track.
stopTrackClearingTrack(a, D) ==
    IF StopThrows(a)
    THEN stopTrackThrows(a, D)
    ELSE /\ pollingInterval' = FALSE
         /\ detached' = Detach(D, a)
         /\ audioSource' = NoSrc
         /\ isPlaying' = FALSE
         /\ currentBuffer' = 0
         /\ currentTrack' = 0
         /\ inv' = Add(inv, Frame("stop", 0, "stop_wait"))
         /\ UNCHANGED <<cdInfo, playlist, audioContext, timers, sinceCheck>>

\* stopTrack() from its entry to the await of the /api/cd/stop request,
\* or to its end if it awaits nothing, called when audioSource references
\* node a and the detached nodes are D.
stopTrack(a, D) ==
    IF StopThrows(a)
    THEN stopTrackThrows(a, D)
    ELSE /\ pollingInterval' = FALSE
         /\ detached' = Detach(D, a)
         /\ audioSource' = NoSrc
         /\ isPlaying' = FALSE
         /\ currentBuffer' = 0
         /\ inv' = Add(inv, Frame("stop", 0, "stop_wait"))
         /\ UNCHANGED <<cdInfo, playlist, currentTrack, audioContext, timers,
                        sinceCheck>>

\* playTrack(trackNumber) when the stopTrack() it awaits has thrown inside
\* and returned without awaiting anything: playTrack goes on in the same
\* task, up to the await of the play request or to its return.
playTrackStopThrows(trackNumber, a, D) ==
    /\ timers < MaxTimers
    /\ pollingInterval' = FALSE
    /\ timers' = timers + 1
    /\ currentTrack' = trackNumber
    /\ inv' = IF TrackFound(trackNumber, cdInfo)
              THEN Add(inv, PlayFrame(trackNumber, FALSE))
              ELSE inv
    /\ audioSource' = a
    /\ detached' = D
    /\ UNCHANGED <<cdInfo, playlist, isPlaying, audioContext, currentBuffer,
                   sinceCheck>>

\* A playTrack without the check of cdInfo.
playTrackUnguarded(trackNumber, a, D) ==
    IF StopThrows(a)
    THEN playTrackStopThrows(trackNumber, a, D)
    ELSE /\ pollingInterval' = FALSE
         /\ detached' = Detach(D, a)
         /\ audioSource' = NoSrc
         /\ isPlaying' = FALSE
         /\ currentBuffer' = 0
         /\ inv' = Add(inv, Frame("play", trackNumber, "stop_wait"))
         /\ UNCHANGED <<cdInfo, playlist, currentTrack, audioContext, timers,
                        sinceCheck>>

\* playTrack(trackNumber) from its entry to the await inside stopTrack.
playTrack(trackNumber, a, D) ==
    IF cdInfo = 0
    THEN /\ audioSource' = a
         /\ detached' = D
         /\ UNCHANGED <<cdInfo, playlist, currentTrack, isPlaying, audioContext,
                        currentBuffer, inv, pollVars>>
    ELSE IF StopThrows(a)
    THEN playTrackStopThrows(trackNumber, a, D)
    ELSE /\ pollingInterval' = FALSE
         /\ detached' = Detach(D, a)
         /\ audioSource' = NoSrc
         /\ isPlaying' = FALSE
         /\ currentBuffer' = 0
         /\ inv' = Add(inv, Frame("play", trackNumber, "stop_wait"))
         /\ UNCHANGED <<cdInfo, playlist, currentTrack, audioContext, timers,
                        sinceCheck>>

\* ev: "play" (the client called playTrack; track is its argument if the
\* disc info has that track, else 0), "stop" (the client called
\* stopTrack), "cleanup" (cleanupResources called stopTrack), "ended" (the
\* source audioSource references played track to its end),
\* "ended_detached" (a source no longer referenced did).  The two latter
\* are recorded when the source reaches the end of its buffer.
Event(ev, track) == [ev |-> ev, track |-> track]

\* The state after the synchronous part of the DOMContentLoaded handler:
\* the first loadCDInfo() awaits its request and startPolling() has run.
Init ==
    /\ cdInfo = 0
    /\ currentTrack = 0
    /\ isPlaying = FALSE
    /\ audioContext = "none"
    /\ audioSource = NoSrc
    /\ currentBuffer = 0
    /\ detached = EmptyBag
    /\ inv = SetToBag({Frame("info", 0, "info_wait")})
    /\ pollingInterval = TRUE
    /\ timers = 0
    /\ sinceCheck = 0
    /\ playlist = 0
    /\ last = Event("none", 0)

(* --------------------------- client actions --------------------------- *)

\* The history variable follows a client call of playTrack(n).
Request(n) ==
    last' = Event("play", IF cdInfo # 0 /\ n \in 1..cdInfo THEN n ELSE 0)

\* playTrack(n) called from a playlist click, the R key or directly.
PlayTrackCall(n) ==
    /\ CanCall
    /\ playTrack(n, audioSource, detached)
    /\ Request(n)

\* The stop button or the Escape key.
StopTrackCall ==
    /\ CanCall
    /\ stopTrack(audioSource, detached)
    /\ last' = Event("stop", 0)

\* cleanupResources(): the listener of pagehide, unload and beforeunload.
\* The script goes on after it when the document is not replaced (a
\* beforeunload whose navigation does not commit, a pagehide followed by
\* a restore from the back/forward cache).
CleanupResources ==
    IF isPlaying
    THEN /\ CanCall
         /\ stopTrack(audioSource, detached)
         /\ last' = Event("cleanup", 0)
    ELSE /\ pollingInterval' = FALSE
         /\ UNCHANGED <<cdInfo, playlist, sessVars, inv, timers, sinceCheck,
                        last>>

\* playPause(): the play/pause button or the space bar.
PlayPause ==
    IF cdInfo = 0
    THEN UNCHANGED vars
    ELSE IF currentTrack = 0
    THEN /\ CanCall
         /\ playTrack(1, audioSource, detached)
         /\ Request(1)
    ELSE IF isPlaying
    THEN \* audioContext.suspend() throws a TypeError without a context
         /\ audioContext' = IF audioContext = "none" THEN "none" ELSE "suspended"
         /\ isPlaying' = (audioContext = "none")
         /\ UNCHANGED <<cdInfo, playlist, currentTrack, audioSource, currentBuffer,
                        detached, inv, pollVars, last>>
    ELSE \* audioContext.resume() throws a TypeError without a context
         /\ audioContext' = IF audioContext = "none" THEN "none" ELSE "running"
         /\ isPlaying' = (audioContext # "none")
         /\ UNCHANGED <<cdInfo, playlist, currentTrack, audioSource, currentBuffer,
                        detached, inv, pollVars, last>>

PreviousTrack ==
    /\ cdInfo # 0
    /\ currentTrack # 0
    /\ currentTrack - 1 >= 1
    /\ CanCall
    /\ playTrack(currentTrack - 1, audioSource, detached)
    /\ Request(currentTrack - 1)

NextTrack ==
    /\ cdInfo # 0
    /\ currentTrack # 0
    /\ currentTrack + 1 <= cdInfo
    /\ CanCall
    /\ playTrack(currentTrack + 1, audioSource, detached)
    /\ Request(currentTrack + 1)

\* A click on the progress bar: the referenced node is stopped and a new
\* node over the same buffer is created and started at the clicked
\* position.  The new node gets no 'ended' listener.  A click left of the
\* bar's edge (negative) gives a negative position, at which start()
\* throws after audioSource has been assigned.  When stop() throws on the
\* referenced node the handler ends at once and nothing changes.
Seek(negative) ==
    /\ audioSource.st # "none"
    /\ audioContext # "none"
    /\ currentBuffer # 0
    /\ ~StopThrows(audioSource)
    /\ SrcCount(NoSrc, Detach(detached, audioSource)) < MaxSrc
    /\ detached' = Detach(detached, audioSource)
    /\ audioSource' = IF negative THEN UnstartedSrc(currentBuffer)
                                  ELSE StartedSrc(currentBuffer, FALSE)
    /\ UNCHANGED <<cdInfo, playlist, currentTrack, isPlaying, audioContext,
                   currentBuffer, inv, pollVars, last>>

(* ------------------------ continuations of awaits --------------------- *)

\* A stopTrack whose finally block sets no timer.
StopTrackDoneNoRestart(r, ok) ==
    /\ r \in Frames
    /\ r.op = "stop"
    /\ r.pc = "stop_wait"
    /\ inv' = Del(inv, r)
    /\ UNCHANGED <<cdInfo, playlist, sessVars, pollVars, last>>

\* stopTrack() called on its own: the /api/cd/stop request was answered
\* (ok), or it failed, timed out or was answered with an error (~ok).
\* Either way the finally block sets the timer that restarts polling.
StopTrackDone(r, ok) ==
    /\ r \in Frames
    /\ r.op = "stop"
    /\ r.pc = "stop_wait"
    /\ timers < MaxTimers
    /\ timers' = timers + 1
    /\ inv' = Del(inv, r)
    /\ UNCHANGED <<cdInfo, playlist, sessVars, pollingInterval, sinceCheck, last>>

\* playTrack(): the stopTrack() it awaits has returned, its request
\* answered (ok) or not (~ok); the track is looked up and the
\* /api/cd/play request is issued.
PlayTrackAfterStop(r, ok) ==
    /\ r \in Frames
    /\ r.op = "play"
    /\ r.pc = "stop_wait"
    /\ timers < MaxTimers
    /\ timers' = timers + 1
    /\ currentTrack' = r.n
    /\ IF TrackFound(r.n, cdInfo)
       THEN /\ audioContext' = IF audioContext = "none" THEN "running"
                                                        ELSE audioContext
            /\ inv' = Add(Del(inv, r), PlayFrame(r.n, ok))
       ELSE /\ audioContext' = audioContext
            /\ inv' = Del(inv, r)
    /\ UNCHANGED <<cdInfo, playlist, isPlaying, audioSource, currentBuffer, detached,
                   pollingInterval, sinceCheck, last>>

\* playTrack(): the play request was answered, its body read and decoded
\* (ok), and a new node is created, given the 'ended' listener and
\* started; or fetch, arrayBuffer or decodeAudioData rejected (~ok) and the
\* catch block ran.
PlayResponse(r, ok) ==
    /\ r \in Frames
    /\ r.pc = "play_wait"
    /\ inv' = Del(inv, r)
    /\ IF ok
       THEN /\ SrcCount(NoSrc, Overwrite(detached, audioSource)) < MaxSrc
            /\ currentBuffer' = r.n
            /\ detached' = Overwrite(detached, audioSource)
            /\ audioSource' = StartedSrc(r.n, TRUE)
            /\ isPlaying' = TRUE
       ELSE /\ isPlaying' = FALSE
            /\ UNCHANGED <<currentBuffer, detached, audioSource>>
    /\ UNCHANGED <<cdInfo, playlist, currentTrack, audioContext, pollVars, last>>

(* ------------------------- the 'ended' listener ----------------------- *)

\* The listener playTrack attaches to the node it starts, run when
\* audioSource references node a and the detached nodes are D.
endedListener(a, D) ==
    IF ShouldAdvance(currentTrack, cdInfo)
    THEN playTrack(currentTrack + 1, a, D)
    ELSE stopTrack(a, D)

\* The node audioSource references plays its buffer to the end, on the
\* audio thread (the context is not suspended); its 'ended' event is
\* queued as a task of the event loop.
BufferEnd ==
    /\ audioSource.st = "live"
    /\ audioContext = "running"
    /\ audioSource' = [audioSource EXCEPT !.st = "finished"]
    /\ last' = Event("ended", audioSource.track)
    /\ UNCHANGED <<cdInfo, playlist, currentTrack, isPlaying, audioContext,
                   currentBuffer, detached, inv, pollVars>>

\* The 'ended' event of the node audioSource references, which played to
\* its end, is delivered; the context may have been suspended since.
NaturalEnd ==
    /\ audioSource.st = "finished"
    /\ IF audioSource.lis
       THEN /\ CanCall
            /\ endedListener([audioSource EXCEPT !.st = "ended"], detached)
       ELSE /\ audioSource' = [audioSource EXCEPT !.st = "ended"]
            /\ UNCHANGED <<cdInfo, playlist, currentTrack, isPlaying,
                           audioContext, currentBuffer, detached, inv,
                           pollVars>>
    /\ UNCHANGED last

\* A live node d that audioSource no longer references plays its buffer
\* to the end; its 'ended' event is queued if it has a listener.
DetachedBufferEnd(d) ==
    /\ d \in BagToSet(detached)
    /\ d.st = "live"
    /\ audioContext = "running"
    /\ detached' = IF d.lis
                   THEN Add(Del(detached, d), [d EXCEPT !.st = "finished"])
                   ELSE Del(detached, d)
    /\ last' = Event("ended_detached", d.track)
    /\ UNCHANGED <<cdInfo, playlist, currentTrack, isPlaying, audioContext,
                   audioSource, currentBuffer, inv, pollVars>>

\* The 'ended' event of a node d that audioSource no longer references,
\* which played to its end, is delivered to its listener.
DetachedEnd(d) ==
    /\ d \in BagToSet(detached)
    /\ d.st = "finished"
    /\ CanCall
    /\ endedListener(audioSource, Del(detached, d))
    /\ UNCHANGED last

\* The 'ended' event of node d, on which stop() was called, is delivered.
EndedAfterStop(d) ==
    /\ d \in BagToSet(detached)
    /\ d.st = "stopped"
    /\ CanCall
    /\ endedListener(audioSource, Del(detached, d))
    /\ UNCHANGED last

(* ------------------------------- polling ------------------------------ *)

\* loadCDInfo() up to the await of the /api/cd/info request.
loadCDInfo ==
    IF TooSoon(sinceCheck)
    THEN UNCHANGED vars
    ELSE /\ CanCall
         /\ sinceCheck' = 0
         /\ inv' = Add(inv, Frame("info", 0, "info_wait"))
         /\ UNCHANGED <<cdInfo, playlist, sessVars, pollingInterval, timers, last>>

\* The setInterval callback of startPolling.
PollTimer ==
    /\ pollingInterval
    /\ loadCDInfo

\* loadCDInfo(): the info request was answered with a disc of n tracks.
InfoResponse(r, n) ==
    /\ r \in Frames
    /\ r.pc = "info_wait"
    /\ cdInfo' = IF cdInfo = 0 \/ n # cdInfo THEN n ELSE cdInfo
    /\ playlist' = IF cdInfo = 0 \/ n # cdInfo THEN n ELSE playlist
    /\ inv' = Del(inv, r)
    /\ UNCHANGED <<sessVars, pollVars, last>>

\* loadCDInfo(): the info request failed, timed out or was not ok; the
\* catch block replaces the track list by the 'No CD detected' message.
InfoFail(r) ==
    /\ r \in Frames
    /\ r.pc = "info_wait"
    /\ playlist' = 0
    /\ inv' = Del(inv, r)
    /\ UNCHANGED <<cdInfo, sessVars, pollVars, last>>

\* The timer set by stopTrack's finally block runs startPolling.
StartPollingTimer ==
    /\ timers > 0
    /\ timers' = timers - 1
    /\ pollingInterval' = TRUE
    /\ UNCHANGED <<cdInfo, playlist, sessVars, inv, sinceCheck, last>>

\* Time passes: CHECK_INTERVAL or more has gone by since lastCheckTime.
Tick ==
    /\ sinceCheck < CHECK_INTERVAL
    /\ sinceCheck' = CHECK_INTERVAL
    /\ UNCHANGED <<cdInfo, playlist, sessVars, inv, pollingInterval, timers, last>>

(* ---------------------------- specification --------------------------- *)

Next ==
    \/ \E n \in TrackArgs : PlayTrackCall(n)
    \/ StopTrackCall
    \/ PlayPause
    \/ PreviousTrack
    \/ NextTrack
    \/ \E negative \in BOOLEAN : Seek(negative)
    \/ CleanupResources
    \/ \E r \in Frames, ok \in BOOLEAN : StopTrackDone(r, ok)
    \/ \E r \in Frames, ok \in BOOLEAN : PlayTrackAfterStop(r, ok)
    \/ \E r \in Frames, ok \in BOOLEAN : PlayResponse(r, ok)
    \/ BufferEnd
    \/ NaturalEnd
    \/ \E d \in BagToSet(detached) : DetachedBufferEnd(d)
    \/ \E d \in BagToSet(detached) : DetachedEnd(d)
    \/ \E d \in BagToSet(detached) : EndedAfterStop(d)
    \/ PollTimer
    \/ \E r \in Frames, n \in 1..MaxTracks : InfoResponse(r, n)
    \/ \E r \in Frames : InfoFail(r)
    \/ StartPollingTimer
    \/ Tick

Spec == Init /\ [][Next]_vars

\* What the code's scheduling guarantees: a request made through
\* fetchWithTimeout is answered or aborted after its timeout, so stopTrack
\* continues; a timer that was set fires, time passes and the polling
\* interval, while set, calls loadCDInfo.  The plain fetch of playTrack
\* has no timeout, and the response.json() of loadCDInfo has none either
\* (fetchWithTimeout clears its timer once the headers have arrived), so
\* no invocation of these two is obliged to continue; nothing obliges
\* the client or a source.
Fairness ==
    /\ WF_vars(\E r \in Frames, ok \in BOOLEAN : StopTrackDone(r, ok))
    /\ WF_vars(\E r \in Frames, ok \in BOOLEAN : PlayTrackAfterStop(r, ok))
    /\ WF_vars(StartPollingTimer)
    /\ WF_vars(Tick)
    /\ WF_vars(PollTimer)

LiveSpec == Spec /\ Fairness

(* ------------------------------- claims ------------------------------- *)

\* This step calls playTrack(n): it enters stopTrack and awaits it, or
\* (stopTrack having thrown inside) goes on to issue its play request.
PlayInvoked(n) ==
    \/ CopiesIn(Frame("play", n, "stop_wait"), inv')
           > CopiesIn(Frame("play", n, "stop_wait"), inv)
    \/ /\ StopThrows(audioSource)
       /\ CopiesIn(PlayFrame(n, FALSE), inv')
              > CopiesIn(PlayFrame(n, FALSE), inv)

\* This step issues GET /api/cd/play/n.
PlayIssued(n) ==
    \E ok \in BOOLEAN :
        CopiesIn(PlayFrame(n, ok), inv') > CopiesIn(PlayFrame(n, ok), inv)

\* This step issues GET /api/cd/stop.
StopIssued ==
    \E r \in BagToSet(inv') :
        /\ r.pc = "stop_wait"
        /\ CopiesIn(r, inv') > CopiesIn(r, inv)

\* C1: in every reachable state at most one audio source is started and
\* not stopped, and it is the one audioSource references.
C1_AtMostOneLiveSession ==
    /\ LiveCount(audioSource, detached) <= 1
    /\ LiveCount(NoSrc, detached) = 0

\* C2: every play request is issued only after the stop request of the
\* teardown that precedes it has completed successfully.
C2_PlayOnlyAfterSuccessfulStop ==
    \A r \in Frames : r.pc = "play_wait" => r.stopOk

\* C3: session transitions are serialized, so there are never two
\* GET /api/cd/play requests outstanding at the same time.
C3_OnePlayRequestOutstanding ==
    BagCardinality([r \in {x \in Frames : x.pc = "play_wait"} |-> inv[r]]) <= 1

\* C4: a playTrack call with a track number outside the cached disc info
\* leaves a playing session undisturbed: the source is not stopped, no
\* stop request is issued, and the session variables keep their values.
C4_InvalidPlayLeavesSession ==
    [][\A n \in TrackArgs :
          (/\ PlayTrackCall(n)
           /\ cdInfo # 0
           /\ ~(n \in 1..cdInfo)
           /\ audioSource.st = "live"
           /\ isPlaying)
          => (/\ UNCHANGED <<audioSource, currentTrack, isPlaying,
                             currentBuffer, detached>>
              /\ ~StopIssued)]_vars

\* C5: playTrack with a track number outside the cached disc info issues
\* no play request and creates no audio source: every play request issued
\* carries a track number of the disc info cached at that moment.
C5_OutOfRangeStartsNothing ==
    [][/\ \A n \in TrackArgs : PlayIssued(n) => (1 <= n /\ n <= cdInfo)
       /\ \A r \in Frames, ok \in BOOLEAN :
             (PlayTrackAfterStop(r, ok) /\ ~(1 <= r.n /\ r.n <= cdInfo))
             => (/\ \A n \in TrackArgs : ~PlayIssued(n)
                 /\ UNCHANGED <<audioSource, detached, isPlaying, currentBuffer>>)
      ]_vars

\* An out-of-range playTrack has run to its end: currentTrack holds the
\* number past the last track and no playTrack is in progress.
C5_Witness ==
    /\ cdInfo # 0
    /\ currentTrack = MaxTracks + 1
    /\ \A r \in Frames : r.op # "play"

\* C6: stopTrack called with no active session (no audio source, not
\* playing) leaves audioSource, isPlaying, currentTrack and currentBuffer
\* as they were, stops nothing and starts no playTrack, also when its
\* request is answered or fails; the state it leaves is again one without
\* session, so a second call changes nothing either.
C6_StopWithoutSessionIsNoOp ==
    [][/\ (StopTrackCall /\ audioSource = NoSrc /\ ~isPlaying)
          => (/\ UNCHANGED <<audioSource, isPlaying, currentTrack,
                             currentBuffer, detached>>
              /\ audioSource' = NoSrc /\ ~isPlaying'
              /\ \A n \in TrackArgs : ~PlayInvoked(n) /\ ~PlayIssued(n))
       /\ \A r \in Frames, ok \in BOOLEAN :
             StopTrackDone(r, ok)
             => (/\ UNCHANGED <<audioSource, isPlaying, currentTrack,
                                currentBuffer, detached>>
                 /\ \A n \in TrackArgs : ~PlayInvoked(n) /\ ~PlayIssued(n))
      ]_vars

\* stopTrack was called twice while no session was ever started.
C6_Witness ==
    /\ last = Event("stop", 0)
    /\ currentTrack = 0
    /\ CopiesIn(Frame("stop", 0, "stop_wait"), inv) >= 2

\* C7: whenever the session playing a non-last track n ends naturally,
\* playTrack(n + 1) is called.
C7_NaturalEndAdvances ==
    [][(/\ NaturalEnd
        /\ isPlaying
        /\ audioSource.track < cdInfo)
       => PlayInvoked(audioSource.track + 1)]_vars

\* C8: when a source playing the last track has played to its end and
\* its 'ended' listener runs, the player is idle after that step
\* (isPlaying false, audioSource null) and no playTrack is called,
\* whether the source is still referenced or not.
C8_LastTrackEndsIdle ==
    [][(/\ \/ (NaturalEnd /\ audioSource.lis)
            \/ (\E d \in BagToSet(detached) : DetachedEnd(d))
        /\ currentTrack = cdInfo)
       => (/\ ~isPlaying'
           /\ audioSource' = NoSrc
           /\ \A n \in TrackArgs : ~PlayInvoked(n) /\ ~PlayIssued(n))]_vars

\* C9: the 'ended' event of a source on which stop() was called (by
\* stopTrack, playTrack or a seek) never causes playTrack to be called.
C9_StoppedSourceNeverAdvances ==
    [][\A d \in BagToSet(detached) :
          EndedAfterStop(d) => \A n \in TrackArgs : ~PlayInvoked(n)]_vars

\* The track of the client's latest play request, if the client has not
\* stopped and no source has played to its end since; 0 otherwise.
requested == IF last.ev = "play" THEN last.track ELSE 0

\* No playTrack or stopTrack is in progress and no 'ended' event of a
\* stopped source is still to be delivered.
Quiescent ==
    /\ \A r \in Frames : r.op = "info"
    /\ \A d \in BagToSet(detached) : d.st # "stopped"

\* C10: once the client's play requests have quiesced, at most one audio
\* source is live, it is the one audioSource references, it holds the
\* audio of the track requested last, and currentTrack is that track
\* (stated for the case that currentTrack names a track of the disc).
C10_LastRequestWins ==
    (Quiescent /\ requested # 0 /\ currentTrack \in 1..cdInfo)
    => /\ LiveCount(audioSource, detached) <= 1
       /\ LiveCount(NoSrc, detached) = 0
       /\ audioSource.st = "live"
          => (audioSource.track = requested /\ currentTrack = requested)

\* This step issues GET /api/cd/info.
InfoIssued ==
    CopiesIn(Frame("info", 0, "info_wait"), inv')
        > CopiesIn(Frame("info", 0, "info_wait"), inv)

\* C11: an info request is issued only when CHECK_INTERVAL or more has
\* passed since the previous one: the time since lastCheckTime is at
\* least CHECK_INTERVAL when a request is issued, is reset by it, and is
\* reset by nothing else.
C11_PollingIsRateLimited ==
    [][/\ InfoIssued => (sinceCheck >= CHECK_INTERVAL /\ sinceCheck' = 0)
       /\ sinceCheck' < sinceCheck => InfoIssued]_vars

\* A later info request is awaited (the first one was answered) and less
\* than CHECK_INTERVAL has passed since it was issued.
C11_Witness ==
    /\ cdInfo # 0
    /\ sinceCheck = 0
    /\ \E r \in Frames : r.op = "info"

\* A session exists: a playTrack is in progress, or a started source is
\* referenced (playing, or paused with the context suspended).
SessionExists ==
    \/ \E r \in Frames : r.op = "play"
    \/ audioSource.st = "live"

\* C12: when cleanupResources runs while a session exists, it issues
\* GET /api/cd/stop.
C12_CleanupStopsSession ==
    [][(CleanupResources /\ SessionExists) => StopIssued]_vars

\* The client calls playTrack, playPause, previousTrack or nextTrack.
PlayCommand ==
    \/ \E n \in TrackArgs : PlayTrackCall(n)
    \/ PlayPause
    \/ PreviousTrack
    \/ NextTrack

\* C14: while no disc info is cached, playTrack, playPause, previousTrack
\* and nextTrack issue no request (no invocation comes to await one) and
\* leave currentTrack, isPlaying, audioSource and the polling timer as
\* they were.
C14_NoDiscNoEffect ==
    [][(cdInfo = 0 /\ PlayCommand)
       => (/\ inv' = inv
           /\ UNCHANGED <<currentTrack, isPlaying, audioSource, currentBuffer,
                          detached, pollingInterval, timers>>)]_vars

\* The client has called playTrack while no disc info was cached.
C14_Witness ==
    /\ cdInfo = 0
    /\ last = Event("play", 0)

\* C15: when the play request or the decoding of playTrack fails, the
\* player is idle after the step (isPlaying false, no audio source live)
\* and the step neither calls playTrack nor issues a play request.
C15_PlayFailureEndsIdle ==
    [][\A r \in Frames :
          PlayResponse(r, FALSE)
          => (/\ ~isPlaying'
              /\ LiveCount(audioSource', detached') = 0
              /\ \A n \in TrackArgs : ~PlayInvoked(n) /\ ~PlayIssued(n))]_vars

\* C16: when the page shows no track list (an info poll has failed) and
\* an info poll is answered with a disc of n tracks, the page lists the
\* n tracks after that step.
C16_InsertionIsShown ==
    [][\A r \in Frames, n \in 1..MaxTracks :
          (InfoResponse(r, n) /\ playlist = 0) => playlist' = n]_vars

\* C17: a seek while a track plays issues no request and leaves
\* currentTrack and isPlaying as they were; and while the source the seek
\* started is referenced, the 'ended' event of a stopped source calls
\* neither playTrack nor stopTrack and leaves the source referenced.
C17_SeekChangesOnlyPosition ==
    [][/\ ((\E negative \in BOOLEAN : Seek(negative)) /\ isPlaying)
          => (inv' = inv /\ UNCHANGED <<currentTrack, isPlaying, currentBuffer>>)
       /\ \A d \in BagToSet(detached) :
             (/\ EndedAfterStop(d)
              /\ audioSource.st = "live"
              /\ ~audioSource.lis)
             => (/\ audioSource' = audioSource
                 /\ ~StopIssued
                 /\ \A n \in TrackArgs : ~PlayInvoked(n))]_vars

\* C18: in every reachable state, isPlaying implies that audioSource
\* references a live source and currentBuffer holds its audio.
C18_PlayingImpliesSource ==
    isPlaying => (audioSource.st = "live" /\ currentBuffer # 0)

\* C19: in every reachable state where currentTrack and cdInfo are not
\* null, currentTrack is the number of a track of cdInfo.
C19_CurrentTrackInRange ==
    (currentTrack # 0 /\ cdInfo # 0) => currentTrack \in 1..cdInfo

\* A step taken by the client: a command, a seek or leaving the page.
ClientStep ==
    \/ \E n \in TrackArgs : PlayTrackCall(n)
    \/ StopTrackCall
    \/ PlayPause
    \/ PreviousTrack
    \/ NextTrack
    \/ \E negative \in BOOLEAN : Seek(negative)
    \/ CleanupResources

\* C13: every call of playTrack and stopTrack eventually completes, also
\* when the server leaves requests unanswered: once the client takes no
\* further step, time and again no playTrack or stopTrack is in progress.
C13_EveryInvocationCompletes ==
    <>[][~ClientStep]_vars => []<>(\A r \in Frames : r.op = "info")

\* stopTrack has been called and has not restarted polling yet: it awaits
\* the answer to its stop request, or the timer of its finally block is
\* set.
StopPending == (\E r \in Frames : r.pc = "stop_wait") \/ timers > 0

\* C20: every call of stopTrack, on its own or from playTrack, whatever
\* the answer to its stop request, is eventually followed by a state in
\* which the polling interval is set again.
C20_PollingResumesAfterStop == StopPending ~> pollingInterval

\* Polling runs again after the client stopped playback and every
\* stopTrack has returned and its timer has fired.
C20_Witness ==
    /\ last = Event("stop", 0)
    /\ pollingInterval
    /\ timers = 0
    /\ ~StopPending

=============================================================================
